---- MODULE Spec2Model ----
(***************************************************************************)
(* Usage-gated speech generation (App component of Gemini TTS Studio).     *)
(* The React component's state, its event handlers, the one-second timer   *)
(* and the outstanding generateSpeech promises, as a state machine.        *)
(* Each handler run (and each continuation after an await) is one atomic   *)
(* step: React commits a render between events, so a handler reads the     *)
(* state of the latest render, and a continuation after an await reads the *)
(* state captured by the closure of the render in which it was started.    *)
(***************************************************************************)
EXTENDS Integers, Sequences, FiniteSets, TLC

VARIABLES
    text,               \* useState text: a sequence of characters
    status,             \* useState status: TTSStatus
    generatedAudio,     \* useState generatedAudio: NoAudio (null) or an artifact
    errorMsg,           \* useState errorMsg: NoError (null) or a message
    dailyRequests,      \* useState dailyRequests
    minuteRequests,     \* useState minuteRequests
    secondsUntilReset,  \* useState secondsUntilReset
    localStorage,       \* window.localStorage: storage key -> stored string
    today,              \* the date new Date() reports (a day number)
    pending,            \* generateSpeech promises not settled yet, each with the
                        \* dailyRequests its handleGenerate closure captured and
                        \* whether the key was changed since the call was made
    keyDialogs,         \* openSelectKey promises not settled yet
    nRequests,          \* number of generateSpeech calls made so far (call ids)
    watch               \* an observer's stopwatch: the ticks and the successful
                        \* generations since it was started (no program state)

vars == <<text, status, generatedAudio, errorMsg, dailyRequests, minuteRequests,
          secondsUntilReset, localStorage, today, pending, keyDialogs, nRequests,
          watch>>

(***************************************************************************)
(* Program constants.                                                      *)
(***************************************************************************)
DAILY_REQUEST_LIMIT == 1500
MINUTE_REQUEST_LIMIT == 15
WINDOW_SECONDS == 60

(***************************************************************************)
(* Bounds of the model.                                                    *)
(***************************************************************************)
MaxRequests == 2        \* generateSpeech calls in one behaviour
MaxInFlight == 2        \* generateSpeech calls outstanding at once
MaxKeyDialogs == 1      \* key selector dialogs open at once
MaxDay == 1             \* the date changes at most MaxDay times
MaxBurst == 17          \* generateSpeech calls in one behaviour of a burst
MaxWindowCalls == 31    \* generateSpeech calls in one behaviour of the watched window

\* The texts typed: empty, white space only, and text with white space around it.
Texts == {<<>>, <<" ">>, <<" ", "a", " ">>}

IDLE == "IDLE"
GENERATING == "GENERATING"
SUCCESS == "SUCCESS"
ERROR == "ERROR"
TTSStatus == {IDLE, GENERATING, SUCCESS, ERROR}

(***************************************************************************)
(* String.prototype.trim: strip the white space at both ends.              *)
(***************************************************************************)
IsSpace(c) == c = " "

RECURSIVE trimStart(_)
trimStart(s) ==
    IF s = <<>> THEN s
    ELSE IF IsSpace(Head(s)) THEN trimStart(Tail(s)) ELSE s

RECURSIVE trimEnd(_)
trimEnd(s) ==
    IF s = <<>> THEN s
    ELSE IF IsSpace(s[Len(s)]) THEN trimEnd(SubSeq(s, 1, Len(s) - 1)) ELSE s

trim(s) == trimEnd(trimStart(s))

(***************************************************************************)
(* Number.prototype.toString and parseInt(s, 10) on decimal digit strings; *)
(* a stored string is a sequence of digits.                                *)
(***************************************************************************)
NaN == -1

RECURSIVE toString(_)
toString(n) ==
    IF n < 10 THEN <<n>> ELSE Append(toString(n \div 10), n % 10)

RECURSIVE parseDigits(_, _)
parseDigits(s, acc) ==
    IF s = <<>> \/ Head(s) \notin 0..9 THEN acc
    ELSE parseDigits(Tail(s), 10 * acc + Head(s))

parseInt(s) ==
    IF s = <<>> \/ Head(s) \notin 0..9 THEN NaN ELSE parseDigits(s, 0)

(***************************************************************************)
(* localStorage: a key is present or absent; getItem of an absent key is   *)
(* null.                                                                   *)
(***************************************************************************)
storageKey(day) == <<"gemini_tts_usage_", day>>

hasItem(store, key) == key \in DOMAIN store
setItem(store, key, value) ==
    [k \in DOMAIN store \cup {key} |-> IF k = key THEN value ELSE store[k]]
removeItem(store, key) ==
    [k \in DOMAIN store \ {key} |-> store[k]]

\* As loadDailyUsage, with the saved usage never read.
loadDailyUsageForgets(store, day) == 0

\* The daily usage load of the mount effect.
loadDailyUsage(store, day) ==
    IF hasItem(store, storageKey(day)) /\ store[storageKey(day)] # <<>>
    THEN parseInt(store[storageKey(day)])
    ELSE 0

(***************************************************************************)
(* Messages.                                                               *)
(***************************************************************************)
NoError == [kind |-> "null", secs |-> 0, words |-> <<>>]
MsgEmptyInput ==
    [kind |-> "Please enter some text to generate speech.", secs |-> 0, words |-> <<>>]
MsgDailyLimit ==
    [kind |-> "Daily limit reached (1500). Please try tomorrow or use a paid key.",
     secs |-> 0, words |-> <<>>]
MsgMinuteLimit(secs) ==
    [kind |-> "Speed limit reached! Please wait ${secondsUntilReset} seconds for the minute quota to reset.",
     secs |-> secs, words |-> <<>>]
MsgQuotaExceeded ==
    [kind |-> "Quota exceeded (429). The system is busy. Please wait a moment.",
     secs |-> 0, words |-> <<>>]
MsgFallback ==
    [kind |-> "Failed to generate speech. Please try again.", secs |-> 0, words |-> <<>>]
MsgOf(words) == [kind |-> "err.message", secs |-> 0, words |-> words]

\* What generateSpeech may reject with: an optional message (a sequence of
\* words) and an optional status.
Undefined == 0
ErrMessages == {<<>>, <<"HTTP", "429">>, <<"RESOURCE_EXHAUSTED">>, <<"Network", "error">>}
ErrStatuses == {Undefined, 429, 500}
Errs ==
    {[hasMessage |-> FALSE, message |-> <<>>, status |-> st] : st \in ErrStatuses}
    \cup [hasMessage : {TRUE}, message : ErrMessages, status : ErrStatuses]

includes(words, w) == \E i \in 1..Len(words) : words[i] = w

NoAudio == [id |-> 0]
AudioOf(call) == [id |-> call.id]

(***************************************************************************)
(* The state after construction: the useState initial values and the       *)
(* mount effect's load of the daily usage. Earlier sessions of the program *)
(* may have left a record for the current date.                            *)
(***************************************************************************)
EarlierUsage == {DAILY_REQUEST_LIMIT - 1, DAILY_REQUEST_LIMIT}

EmptyStorage == [k \in {} |-> <<>>]

InitialStorages ==
    {EmptyStorage} \cup {setItem(EmptyStorage, storageKey(0), toString(n)) : n \in EarlierUsage}

Mounted(store) ==
    /\ text = <<>>
    /\ status = IDLE
    /\ generatedAudio = NoAudio
    /\ errorMsg = NoError
    /\ today = 0
    /\ localStorage = store
    /\ dailyRequests = loadDailyUsage(store, 0)
    /\ minuteRequests = 0
    /\ secondsUntilReset = WINDOW_SECONDS
    /\ pending = {}
    /\ keyDialogs = 0
    /\ nRequests = 0

WatchOff == [on |-> FALSE, ticks |-> 0, successes |-> 0]

Init ==
    /\ \E store \in InitialStorages : Mounted(store)
    /\ watch = WatchOff

(***************************************************************************)
(* The checks handleGenerate makes before it calls generateSpeech.         *)
(***************************************************************************)
\* As checkAdmission, with the minute limit checked before the daily limit.
checkAdmissionMinuteFirst(txt, daily, minute) ==
    IF trim(txt) = <<>> THEN "EmptyInput"
    ELSE IF minute >= MINUTE_REQUEST_LIMIT THEN "MinuteLimitReached"
    ELSE IF daily >= DAILY_REQUEST_LIMIT THEN "DailyLimitReached"
    ELSE "Allowed"

\* As checkAdmission, with > for >= in the minute check.
checkAdmissionMinuteStrict(txt, daily, minute) ==
    IF trim(txt) = <<>> THEN "EmptyInput"
    ELSE IF daily >= DAILY_REQUEST_LIMIT THEN "DailyLimitReached"
    ELSE IF minute > MINUTE_REQUEST_LIMIT THEN "MinuteLimitReached"
    ELSE "Allowed"

\* As checkAdmission, with > for >= in the daily check.
checkAdmissionDailyStrict(txt, daily, minute) ==
    IF trim(txt) = <<>> THEN "EmptyInput"
    ELSE IF daily > DAILY_REQUEST_LIMIT THEN "DailyLimitReached"
    ELSE IF minute >= MINUTE_REQUEST_LIMIT THEN "MinuteLimitReached"
    ELSE "Allowed"

checkAdmission(txt, daily, minute) ==
    IF trim(txt) = <<>> THEN "EmptyInput"
    ELSE IF daily >= DAILY_REQUEST_LIMIT THEN "DailyLimitReached"
    ELSE IF minute >= MINUTE_REQUEST_LIMIT THEN "MinuteLimitReached"
    ELSE "Allowed"

DenialMsg(verdict, secs) ==
    CASE verdict = "EmptyInput" -> MsgEmptyInput
      [] verdict = "DailyLimitReached" -> MsgDailyLimit
      [] verdict = "MinuteLimitReached" -> MsgMinuteLimit(secs)

\* handleGenerate up to its await: a denial sets the message and returns; an
\* admitted request clears message and result, enters GENERATING and calls
\* generateSpeech. The closure keeps the dailyRequests of this render.
StartCall(maxCalls) ==
    /\ nRequests < maxCalls
    /\ Cardinality(pending) < MaxInFlight
    /\ errorMsg' = NoError
    /\ status' = GENERATING
    /\ generatedAudio' = NoAudio
    /\ nRequests' = nRequests + 1
    /\ pending' = pending \cup
                    {[id |-> nRequests + 1, daily |-> dailyRequests, stale |-> FALSE]}

\* As handleGenerate, with a denial also entering ERROR.
handleGenerateDenialEntersError(maxCalls) ==
    LET verdict == checkAdmission(text, dailyRequests, minuteRequests)
    IN  /\ IF verdict = "Allowed"
           THEN StartCall(maxCalls)
           ELSE /\ errorMsg' = DenialMsg(verdict, secondsUntilReset)
                /\ status' = ERROR
                /\ UNCHANGED <<generatedAudio, nRequests, pending>>
        /\ UNCHANGED <<text, dailyRequests, minuteRequests, secondsUntilReset,
                       localStorage, today, keyDialogs>>

handleGenerate(maxCalls) ==
    LET verdict == checkAdmission(text, dailyRequests, minuteRequests)
    IN  /\ IF verdict = "Allowed"
           THEN StartCall(maxCalls)
           ELSE /\ errorMsg' = DenialMsg(verdict, secondsUntilReset)
                /\ UNCHANGED <<status, generatedAudio, nRequests, pending>>
        /\ UNCHANGED <<text, dailyRequests, minuteRequests, secondsUntilReset,
                       localStorage, today, keyDialogs>>

\* incrementUsage, as called from the closure that captured `daily`.
incrementUsage(daily) ==
    /\ dailyRequests' = daily + 1
    /\ localStorage' = setItem(localStorage, storageKey(today), toString(daily + 1))
    /\ minuteRequests' = minuteRequests + 1

\* handleGenerate after its await, generateSpeech having resolved.
Resolved(call) ==
    /\ call \in pending
    /\ pending' = pending \ {call}
    /\ generatedAudio' = AudioOf(call)
    /\ status' = SUCCESS
    /\ incrementUsage(call.daily)
    /\ UNCHANGED <<text, errorMsg, secondsUntilReset, today, keyDialogs, nRequests>>

\* As classify, without the test of err.status.
classifyIgnoresStatus(err) ==
    IF \/ (err.hasMessage /\ includes(err.message, "429"))
       \/ (err.hasMessage /\ includes(err.message, "RESOURCE_EXHAUSTED"))
    THEN MsgQuotaExceeded
    ELSE IF err.hasMessage /\ err.message # <<>> THEN MsgOf(err.message)
    ELSE MsgFallback

\* The message the catch block of handleGenerate exposes.
classify(err) ==
    IF \/ (err.hasMessage /\ includes(err.message, "429"))
       \/ err.status = 429
       \/ (err.hasMessage /\ includes(err.message, "RESOURCE_EXHAUSTED"))
    THEN MsgQuotaExceeded
    ELSE IF err.hasMessage /\ err.message # <<>> THEN MsgOf(err.message)
    ELSE MsgFallback

\* As Rejected, with the usage counted although the call failed.
RejectedCountsUsage(call, err) ==
    /\ call \in pending
    /\ pending' = pending \ {call}
    /\ status' = ERROR
    /\ errorMsg' = classify(err)
    /\ incrementUsage(call.daily)
    /\ UNCHANGED <<text, generatedAudio, secondsUntilReset, today, keyDialogs, nRequests>>

\* handleGenerate after its await, generateSpeech having rejected with err.
Rejected(call, err) ==
    /\ call \in pending
    /\ pending' = pending \ {call}
    /\ status' = ERROR
    /\ errorMsg' = classify(err)
    /\ UNCHANGED <<text, generatedAudio, dailyRequests, minuteRequests,
                   secondsUntilReset, localStorage, today, keyDialogs, nRequests>>

\* As tick, with the reset one second late (prev <= 0 for prev <= 1).
tickResetsAtZero ==
    /\ secondsUntilReset' = IF secondsUntilReset <= 0 THEN WINDOW_SECONDS
                            ELSE secondsUntilReset - 1
    /\ minuteRequests' = IF secondsUntilReset <= 0 THEN 0 ELSE minuteRequests
    /\ UNCHANGED <<text, status, generatedAudio, errorMsg, dailyRequests,
                   localStorage, today, pending, keyDialogs, nRequests>>

\* As tick, with the callback held back while a call is outstanding.
tickHeldByCall ==
    /\ pending = {}
    /\ secondsUntilReset' = IF secondsUntilReset <= 1 THEN WINDOW_SECONDS
                            ELSE secondsUntilReset - 1
    /\ minuteRequests' = IF secondsUntilReset <= 1 THEN 0 ELSE minuteRequests
    /\ UNCHANGED <<text, status, generatedAudio, errorMsg, dailyRequests,
                   localStorage, today, pending, keyDialogs, nRequests>>

\* As tick, with the countdown restarted and the minute count kept.
tickKeepsMinuteCount ==
    /\ secondsUntilReset' = IF secondsUntilReset <= 1 THEN WINDOW_SECONDS
                            ELSE secondsUntilReset - 1
    /\ UNCHANGED <<text, status, generatedAudio, errorMsg, dailyRequests,
                   minuteRequests, localStorage, today, pending, keyDialogs,
                   nRequests>>

\* One run of the setInterval callback.
tick ==
    /\ secondsUntilReset' = IF secondsUntilReset <= 1 THEN WINDOW_SECONDS
                            ELSE secondsUntilReset - 1
    /\ minuteRequests' = IF secondsUntilReset <= 1 THEN 0 ELSE minuteRequests
    /\ UNCHANGED <<text, status, generatedAudio, errorMsg, dailyRequests,
                   localStorage, today, pending, keyDialogs, nRequests>>

handleTextChange(value) ==
    /\ text' = value
    /\ errorMsg' = NoError
    /\ UNCHANGED <<status, generatedAudio, dailyRequests, minuteRequests,
                   secondsUntilReset, localStorage, today, pending, keyDialogs,
                   nRequests>>

\* handleChangeApiKey up to its await: the key selector is opened.
openSelectKey ==
    /\ keyDialogs < MaxKeyDialogs
    /\ keyDialogs' = keyDialogs + 1
    /\ UNCHANGED <<text, status, generatedAudio, errorMsg, dailyRequests,
                   minuteRequests, secondsUntilReset, localStorage, today,
                   pending, nRequests>>

\* handleChangeApiKey after its await: the reset for the new key.
keySelected ==
    /\ keyDialogs > 0
    /\ keyDialogs' = keyDialogs - 1
    /\ errorMsg' = NoError
    /\ status' = IDLE
    /\ dailyRequests' = 0
    /\ minuteRequests' = 0
    /\ secondsUntilReset' = WINDOW_SECONDS
    /\ localStorage' = removeItem(localStorage, storageKey(today))
    /\ pending' = {[call EXCEPT !.stale = TRUE] : call \in pending}
    /\ UNCHANGED <<text, generatedAudio, today, nRequests>>

\* openSelectKey rejects: handleChangeApiKey ends without the reset.
keySelectionFailed ==
    /\ keyDialogs > 0
    /\ keyDialogs' = keyDialogs - 1
    /\ UNCHANGED <<text, status, generatedAudio, errorMsg, dailyRequests,
                   minuteRequests, secondsUntilReset, localStorage, today,
                   pending, nRequests>>

\* handleChangeApiKey where window.aistudio offers no key selector: an alert only.
keySelectorUnavailable == UNCHANGED vars

\* The page is loaded again: the state is initialised and the mount effect runs
\* as at construction, over the storage as it is; the promises of the page
\* before are gone with it.
restart ==
    /\ text' = <<>>
    /\ status' = IDLE
    /\ generatedAudio' = NoAudio
    /\ errorMsg' = NoError
    /\ dailyRequests' = loadDailyUsage(localStorage, today)
    /\ minuteRequests' = 0
    /\ secondsUntilReset' = WINDOW_SECONDS
    /\ pending' = {}
    /\ keyDialogs' = 0
    /\ UNCHANGED <<localStorage, today, nRequests>>

\* Midnight: new Date() reports the next date from now on.
dateChange ==
    /\ today < MaxDay
    /\ today' = today + 1
    /\ UNCHANGED <<text, status, generatedAudio, errorMsg, dailyRequests,
                   minuteRequests, secondsUntilReset, localStorage, pending,
                   keyDialogs, nRequests>>

(***************************************************************************)
(* The operations, invoked in any order: generate is handleGenerate itself, *)
(* whatever the page shows.                                                *)
(***************************************************************************)
Generate == handleGenerate(MaxRequests) /\ UNCHANGED watch
Resolve == (\E call \in pending : Resolved(call)) /\ UNCHANGED watch
Reject == (\E call \in pending : \E err \in Errs : Rejected(call, err)) /\ UNCHANGED watch
Tick == tick /\ UNCHANGED watch
TextChange == (\E value \in Texts : handleTextChange(value)) /\ UNCHANGED watch
ChangeKeyOpen == openSelectKey /\ UNCHANGED watch
ChangeKeyDone == keySelected /\ UNCHANGED watch
ChangeKeyFailed == keySelectionFailed /\ UNCHANGED watch
ChangeKeyUnavailable == keySelectorUnavailable
DateChange == dateChange /\ UNCHANGED watch
Restart == restart /\ UNCHANGED watch

Next ==
    \/ Generate
    \/ Resolve
    \/ Reject
    \/ Tick
    \/ TextChange
    \/ ChangeKeyOpen
    \/ ChangeKeyDone
    \/ ChangeKeyFailed
    \/ ChangeKeyUnavailable
    \/ DateChange
    \/ Restart

Spec == Init /\ [][Next]_vars

(***************************************************************************)
(* The page: handleGenerate runs only from a click on the generate button, *)
(* which is disabled while generating, without text, or with the minute    *)
(* quota used up.                                                          *)
(***************************************************************************)
isMinuteFull == MINUTE_REQUEST_LIMIT - minuteRequests <= 0

generateDisabled == status = GENERATING \/ trim(text) = <<>> \/ isMinuteFull

ClickGenerate == ~generateDisabled /\ handleGenerate(MaxRequests) /\ UNCHANGED watch

NextUI ==
    \/ ClickGenerate
    \/ Resolve
    \/ Reject
    \/ Tick
    \/ TextChange
    \/ ChangeKeyOpen
    \/ ChangeKeyDone
    \/ ChangeKeyFailed
    \/ ChangeKeyUnavailable
    \/ DateChange
    \/ Restart

SpecUI == Init /\ [][NextUI]_vars

(***************************************************************************)
(* A burst: up to MaxBurst requests with no timer tick and no date change  *)
(* in between, every call succeeding.                                      *)
(***************************************************************************)
BurstGenerate == handleGenerate(MaxBurst) /\ UNCHANGED watch

NextBurst ==
    \/ BurstGenerate
    \/ Resolve
    \/ TextChange

SpecBurst == Init /\ [][NextBurst]_vars

BurstClickGenerate == ~generateDisabled /\ handleGenerate(MaxBurst) /\ UNCHANGED watch

NextBurstUI ==
    \/ BurstClickGenerate
    \/ Resolve
    \/ TextChange
    \/ ChangeKeyOpen
    \/ ChangeKeyDone

SpecBurstUI == Init /\ [][NextBurstUI]_vars

(***************************************************************************)
(* The admission checks on their own: handleGenerate applied to any text   *)
(* and any counts around the two limits.                                   *)
(***************************************************************************)
AdmissionDaily ==
    {0, DAILY_REQUEST_LIMIT - 1, DAILY_REQUEST_LIMIT, DAILY_REQUEST_LIMIT + 1}
AdmissionMinute ==
    {0, MINUTE_REQUEST_LIMIT - 1, MINUTE_REQUEST_LIMIT, MINUTE_REQUEST_LIMIT + 1}

InitAdmission ==
    /\ text \in Texts
    /\ status \in TTSStatus \ {GENERATING}
    /\ generatedAudio = NoAudio
    /\ errorMsg = NoError
    /\ today = 0
    /\ localStorage = EmptyStorage
    /\ dailyRequests \in AdmissionDaily
    /\ minuteRequests \in AdmissionMinute
    /\ secondsUntilReset = WINDOW_SECONDS
    /\ pending = {}
    /\ keyDialogs = 0
    /\ nRequests = 0
    /\ watch = WatchOff

Admit == handleGenerate(MaxRequests) /\ UNCHANGED watch

SpecAdmission == InitAdmission /\ [][Admit]_vars

(***************************************************************************)
(* Notions the properties are stated with.                                 *)
(***************************************************************************)
\* The persisted daily record of the current date, an absent record reading 0.
Record == loadDailyUsage(localStorage, today)
RecordAbsent == ~hasItem(localStorage, storageKey(today))

Blank(txt) == \A i \in 1..Len(txt) : txt[i] = " "

Counters == <<dailyRequests, minuteRequests, localStorage>>

\* C1: handleGenerate reports, in this order, empty input, the daily limit, the
\* minute limit, and admits the request otherwise: a request failing several
\* checks reports the first.
C1_AdmissionOrder ==
    [][ /\ Blank(text) => errorMsg' = MsgEmptyInput /\ pending' = pending
        /\ (~Blank(text) /\ dailyRequests >= DAILY_REQUEST_LIMIT)
              => errorMsg' = MsgDailyLimit /\ pending' = pending
        /\ (~Blank(text) /\ dailyRequests < DAILY_REQUEST_LIMIT
                         /\ minuteRequests >= MINUTE_REQUEST_LIMIT)
              => errorMsg' = MsgMinuteLimit(secondsUntilReset) /\ pending' = pending
        /\ (~Blank(text) /\ dailyRequests < DAILY_REQUEST_LIMIT
                         /\ minuteRequests < MINUTE_REQUEST_LIMIT)
              => errorMsg' = NoError /\ Cardinality(pending') = Cardinality(pending) + 1
      ]_vars

\* A request over both limits was answered with the daily limit.
C1_Witness ==
    /\ ~Blank(text)
    /\ dailyRequests >= DAILY_REQUEST_LIMIT
    /\ minuteRequests >= MINUTE_REQUEST_LIMIT
    /\ errorMsg = MsgDailyLimit

\* C2: a denied generate starts no call, leaves status, result, daily count,
\* persisted record and minute count as they were, and exposes the denial reason.
C2_DenialIsInert ==
    [][ (BurstGenerate /\ (Blank(text) \/ dailyRequests >= DAILY_REQUEST_LIMIT
                                       \/ minuteRequests >= MINUTE_REQUEST_LIMIT))
          => /\ UNCHANGED <<pending, nRequests, status, generatedAudio, Counters>>
             /\ errorMsg' \in {MsgEmptyInput, MsgDailyLimit, MsgMinuteLimit(secondsUntilReset)}
      ]_vars

\* The minute limit was reached by successful generations and a further request
\* was denied for it.
C2_Witness ==
    /\ errorMsg = MsgMinuteLimit(secondsUntilReset)
    /\ minuteRequests = MINUTE_REQUEST_LIMIT
    /\ status = SUCCESS
    /\ pending = {}

\* C3: a call that settles successfully raises the daily count, the persisted
\* record of the current date and the minute count by exactly 1 each.
C3_SuccessCountsOnce ==
    [][ \A call \in pending :
          Resolved(call) => /\ dailyRequests' = dailyRequests + 1
                            /\ Record' = Record + 1
                            /\ minuteRequests' = minuteRequests + 1
      ]_vars

\* C4: a call that fails ends in ERROR with a message exposed and leaves the
\* daily count, the persisted record and the minute count as they were.
C4_FailureCountsNothing ==
    [][ Reject => /\ status' = ERROR
                  /\ errorMsg' # NoError
                  /\ UNCHANGED Counters
      ]_vars

\* A call was rejected with a 429 in a session that had counted a success before.
C4_Witness ==
    /\ status = ERROR
    /\ errorMsg = MsgQuotaExceeded
    /\ minuteRequests = 1
    /\ nRequests = 2
    /\ pending = {}

\* C5: generate invoked while GENERATING starts no call and changes nothing.
C5_GenerateIgnoredWhileGenerating ==
    [][ (status = GENERATING /\ Generate) => UNCHANGED vars ]_vars

\* C6: with the generate button gated as the page gates it, at most one call
\* is outstanding.
C6_OneCallOutstanding == Cardinality(pending) <= 1

\* C7: the minute count stays within 0..MINUTE_REQUEST_LIMIT.
C7_MinuteCountBounded == minuteRequests \in 0..MINUTE_REQUEST_LIMIT

\* C8: secondsUntilReset is always in 1..60; a tick above 1 decrements it and
\* leaves the minute count alone, a tick at 1 sets it to 60 and the minute
\* count to 0 in the same step.
C8_Countdown ==
    /\ [](secondsUntilReset \in 1..60)
    /\ [][ Tick => IF secondsUntilReset > 1
                   THEN /\ secondsUntilReset' = secondsUntilReset - 1
                        /\ minuteRequests' = minuteRequests
                   ELSE /\ secondsUntilReset' = 60
                        /\ minuteRequests' = 0
         ]_vars

\* A counted generation was wiped by the tick that ended its window.
C8_Witness ==
    /\ status = SUCCESS
    /\ minuteRequests = 0
    /\ secondsUntilReset = 60
    /\ pending = {}

\* C9: the key change leaves daily count 0, minute count 0, countdown 60 and no
\* record for the current date, and the counts stay so when a call made before
\* the key change settles.
C9_KeyChangeResetsQuota ==
    [][ /\ ChangeKeyDone => /\ dailyRequests' = 0
                            /\ minuteRequests' = 0
                            /\ secondsUntilReset' = 60
                            /\ RecordAbsent'
        /\ \A call \in pending :
             (call.stale /\ dailyRequests = 0 /\ Resolved(call))
                => /\ dailyRequests' = 0
                   /\ minuteRequests' = minuteRequests
                   /\ Record' = Record
      ]_vars

\* C10: the key change leaves status IDLE, no error and no result.
C10_KeyChangeClearsOutcome ==
    [][ ChangeKeyDone => /\ status' = IDLE
                         /\ errorMsg' = NoError
                         /\ generatedAudio' = NoAudio
      ]_vars

\* C11: in a session running across a date change, the daily count is 0 on the
\* new date until a generation succeeds on it, the first success on the new
\* date records 1 under it, and the records of earlier dates keep their values.
C11_DateRollover ==
    /\ []((today > 0 /\ RecordAbsent) => dailyRequests = 0)
    /\ [][ /\ (today > 0 /\ RecordAbsent /\ Resolve) => Record' = 1
           /\ \A d \in 0..MaxDay :
                d < today' => loadDailyUsage(localStorage', d) = loadDailyUsage(localStorage, d)
         ]_vars

(***************************************************************************)
(* Requests and their outcomes alone: no timer tick, no date change and no *)
(* key change in between.                                                  *)
(***************************************************************************)
NextOutcomes ==
    \/ Generate
    \/ Resolve
    \/ Reject
    \/ TextChange

SpecOutcomes == Init /\ [][NextOutcomes]_vars

\* C12: a failure is exposed as the quota message exactly when its message
\* contains "429", its status is 429 or its message contains the resource
\* exhausted marker; any other failure is exposed with its own message, or with
\* the fallback message when it has none.
C12_Classification ==
    [][ \A call \in pending : \A err \in Errs :
          Rejected(call, err) =>
            LET has(w) == err.hasMessage /\ w \in {err.message[i] : i \in DOMAIN err.message}
                quota == has("429") \/ err.status = 429 \/ has("RESOURCE_EXHAUSTED")
                noMessage == ~err.hasMessage \/ Len(err.message) = 0
            IN  /\ quota <=> errorMsg' = MsgQuotaExceeded
                /\ (~quota /\ ~noMessage) => errorMsg' = MsgOf(err.message)
                /\ (~quota /\ noMessage) => errorMsg' = MsgFallback
      ]_vars

\* A failure outside the quota class was exposed with its own message.
C12_Witness ==
    /\ status = ERROR
    /\ errorMsg = MsgOf(<<"Network", "error">>)
    /\ pending = {}

\* The calls that have succeeded, where no call fails.
Succeeded == nRequests - Cardinality(pending)

\* C13: once MINUTE_REQUEST_LIMIT generations have succeeded in one window, a
\* further generate (with text, under the daily limit) is denied for the
\* minute limit and calls nothing.
C13_SixteenthDenied ==
    [][ (/\ Succeeded >= MINUTE_REQUEST_LIMIT
         /\ ~Blank(text)
         /\ dailyRequests < DAILY_REQUEST_LIMIT
         /\ BurstGenerate)
          => /\ errorMsg' = MsgMinuteLimit(secondsUntilReset)
             /\ UNCHANGED <<pending, nRequests, status>>
      ]_vars

\* Fifteen generations succeeded from a count of 0 and the next one was denied.
C13_Witness ==
    /\ Succeeded = MINUTE_REQUEST_LIMIT
    /\ dailyRequests = MINUTE_REQUEST_LIMIT
    /\ errorMsg = MsgMinuteLimit(secondsUntilReset)
    /\ pending = {}

\* C14: status changes only from IDLE, SUCCESS or ERROR to GENERATING, from
\* GENERATING to SUCCESS or ERROR, and from any state to IDLE.
C14_StatusTransitions ==
    [][ status' # status =>
          \/ status' = IDLE
          \/ status \in {IDLE, SUCCESS, ERROR} /\ status' = GENERATING
          \/ status = GENERATING /\ status' \in {SUCCESS, ERROR}
      ]_vars

\* C15: a tick is possible in every state, a call outstanding or not, and
\* changes nothing but secondsUntilReset and the minute count.
C15_TickFrame ==
    /\ [](ENABLED Tick)
    /\ [][ Tick => UNCHANGED <<text, status, generatedAudio, errorMsg, dailyRequests,
                               localStorage, today, pending, keyDialogs>>
         ]_vars

\* The timer ran while a call was outstanding.
C15_Witness ==
    /\ status = GENERATING
    /\ pending # {}
    /\ secondsUntilReset < WINDOW_SECONDS

\* C16: after a restart the status is IDLE with no error and no result, the
\* minute count is 0 and the countdown 60, the daily count is what the record
\* of the current date holds (0 without a record), and the storage is untouched.
C16_RestartState ==
    [][ Restart => /\ status' = IDLE
                   /\ errorMsg' = NoError
                   /\ generatedAudio' = NoAudio
                   /\ minuteRequests' = 0
                   /\ secondsUntilReset' = 60
                   /\ localStorage' = localStorage
                   /\ IF RecordAbsent
                      THEN dailyRequests' = 0
                      ELSE localStorage[storageKey(today)] = toString(dailyRequests')
      ]_vars

\* The page was loaded again after a counted generation: idle, with the count
\* read back from the record.
C16_Witness ==
    /\ status = IDLE
    /\ nRequests > 0
    /\ dailyRequests = 1
    /\ ~RecordAbsent
    /\ pending = {}

(***************************************************************************)
(* The watched window: one request at a time, every call succeeding, the   *)
(* timer running.  An observer starts a stopwatch just before a reset tick  *)
(* and counts, for the next WINDOW_SECONDS - 1 ticks, the ticks and the    *)
(* generations that succeed; the 60th tick ends the watch.                 *)
(***************************************************************************)
Watching == watch.on

WindowGenerate == pending = {} /\ handleGenerate(MaxWindowCalls) /\ UNCHANGED watch

WindowResolve ==
    /\ \E call \in pending : Resolved(call)
    /\ watch' = IF Watching THEN [watch EXCEPT !.successes = @ + 1] ELSE watch

WindowTick ==
    /\ tick
    /\ watch' = IF ~Watching THEN watch
                ELSE IF watch.ticks + 1 < WINDOW_SECONDS
                     THEN [watch EXCEPT !.ticks = @ + 1]
                     ELSE WatchOff

StartWatch ==
    /\ ~Watching
    /\ secondsUntilReset = 1
    /\ watch' = [on |-> TRUE, ticks |-> 0, successes |-> 0]
    /\ UNCHANGED <<text, status, generatedAudio, errorMsg, dailyRequests,
                   minuteRequests, secondsUntilReset, localStorage, today,
                   pending, keyDialogs, nRequests>>

NextWindow ==
    \/ WindowGenerate
    \/ WindowResolve
    \/ WindowTick
    \/ TextChange
    \/ StartWatch

SpecWindow == Init /\ [][NextWindow]_vars

\* C17: the minute window has a fixed origin.  Every request that starts a
\* call passed the three checks (the minute count below the limit among them),
\* and still more than MINUTE_REQUEST_LIMIT generations succeed within fewer
\* than WINDOW_SECONDS consecutive ticks, though never more than twice the
\* limit: one full allowance before a reset tick and one after it.
C17_FixedOriginWindow ==
    /\ [](Watching => /\ watch.ticks < WINDOW_SECONDS
                      /\ watch.successes <= 2 * MINUTE_REQUEST_LIMIT)
    /\ [][ nRequests' > nRequests => /\ ~Blank(text)
                                     /\ dailyRequests < DAILY_REQUEST_LIMIT
                                     /\ minuteRequests < MINUTE_REQUEST_LIMIT
         ]_vars

\* More than the minute limit succeeded within fewer than 60 ticks.
C17_Witness ==
    /\ Watching
    /\ watch.ticks < WINDOW_SECONDS
    /\ watch.successes > MINUTE_REQUEST_LIMIT

(***************************************************************************)
(* The timer under fairness: setInterval keeps calling back, so a tick     *)
(* that stays possible eventually happens.  One request at a time, every   *)
(* call succeeding, the timer running.                                     *)
(***************************************************************************)
LiveGenerate == pending = {} /\ handleGenerate(MaxBurst) /\ UNCHANGED watch

NextLive ==
    \/ LiveGenerate
    \/ Resolve
    \/ Tick
    \/ TextChange

SpecLive == Init /\ [][NextLive]_vars /\ WF_vars(Tick)

\* C18: a minute-limit denial is temporary.  While the minute count is at or
\* over the limit the countdown is within 1..60 and every tick either brings
\* it one second closer to the reset or resets the count to 0, so under fair
\* ticking the count is 0 again within 60 ticks; a request with non-blank
\* text and a daily count below the limit is then admitted.
C18_DenialIsTemporary ==
    /\ [](secondsUntilReset \in 1..WINDOW_SECONDS)
    /\ [][ (minuteRequests >= MINUTE_REQUEST_LIMIT /\ Tick)
             => \/ secondsUntilReset' = secondsUntilReset - 1
                \/ minuteRequests' = 0
         ]_vars
    /\ (minuteRequests >= MINUTE_REQUEST_LIMIT)
         ~> (/\ minuteRequests = 0
             /\ (~Blank(text) /\ dailyRequests < DAILY_REQUEST_LIMIT)
                  => checkAdmission(text, dailyRequests, minuteRequests) = "Allowed")

\* A request was denied for the minute limit, the timer has reset the count
\* since, and the next request would be admitted.
C18_Witness ==
    /\ errorMsg.kind = MsgMinuteLimit(0).kind
    /\ minuteRequests = 0
    /\ checkAdmission(text, dailyRequests, minuteRequests) = "Allowed"

\* C19: in every reachable state the in-memory daily count equals the
\* persisted record of the current date, an absent record counting as 0.
C19_DailyCountIsRecord == dailyRequests = Record

\* C20: starting from a saved record of at most DAILY_REQUEST_LIMIT, neither
\* the in-memory daily count nor any persisted record ever exceeds
\* DAILY_REQUEST_LIMIT, so the displayed remaining count is never negative.
C20_DailyCountBounded ==
    /\ dailyRequests \in 0..DAILY_REQUEST_LIMIT
    /\ \A key \in DOMAIN localStorage : parseInt(localStorage[key]) \in 0..DAILY_REQUEST_LIMIT
    /\ DAILY_REQUEST_LIMIT - dailyRequests >= 0

\* The last request of the day succeeded: the count and its record are at
\* the limit.
C20_Witness ==
    /\ status = SUCCESS
    /\ dailyRequests = DAILY_REQUEST_LIMIT
    /\ Record = DAILY_REQUEST_LIMIT
    /\ nRequests > 0

\* C21: a result that is exposed is the one returned for the most recently
\* admitted request, and the settlement of an older request, success or
\* failure, changes neither the status nor the error nor the result.
C21_ResultOfLatestRequest ==
    /\ [](generatedAudio # NoAudio => generatedAudio.id = nRequests)
    /\ [][ \A call \in pending :
             (/\ call.id < nRequests
              /\ \/ Resolved(call)
                 \/ \E err \in Errs : Rejected(call, err))
               => UNCHANGED <<status, errorMsg, generatedAudio>>
         ]_vars

====
